---- MODULE Spec2Model ----
(***************************************************************************)
(* State-machine model of the snake game core: the Model built by init     *)
(* (src/src/model.ts) and the transition function update                   *)
(* (src/src/update.ts), driven one event at a time.                        *)
(***************************************************************************)
EXTENDS Integers, Sequences, FiniteSets, TLC

\* ---------------------------------------------------------------- bounds
MaxScore == 3

\* ------------------------------------------------------ program constants
InitialSnakeLength == 3
DefaultSpeed == 3
FoodValue == 1

Directions == {"UP", "DOWN", "LEFT", "RIGHT"}

GameStatus == {"RUNNING", "PAUSED", "GAME_OVER"}

NoPayload == "NONE"

Position(px, py) == [x |-> px, y |-> py]

\* What a call hands back to its caller: a Model, or an exception (the
\* caller then keeps the model it had).
Returned(m) == [model |-> m, error |-> "NONE"]
Thrown(m, e) == [model |-> m, error |-> e]

InGrid(p, width, height) ==
  p.x >= 0 /\ p.x < width /\ p.y >= 0 /\ p.y < height

Occurs(p, s) == \E i \in 1..Len(s) : s[i] = p

Abs(n) == IF n < 0 THEN -n ELSE n

\* ------------------------------------------------------------- model.ts

\* getRandomEmptyPosition taking every cell that is not the snake's head for
\* empty.
getRandomEmptyPosition_SkipsOnlyHead(cells, width, height) ==
  {p \in [x : 0..(width - 1), y : 0..(height - 1)] :
     cells[p.y][p.x] # "SNAKE_HEAD"}

\* The set of EMPTY cells getRandomEmptyPosition picks from (Math.random
\* makes every one of them a possible result); it throws when the set is
\* empty.
getRandomEmptyPosition(cells, width, height) ==
  {p \in [x : 0..(width - 1), y : 0..(height - 1)] : cells[p.y][p.x] = "EMPTY"}

\* init with the head put at half the width instead of a quarter.
init_HeadAtHalfWidth(config) ==
  LET gridWidth == config.gridWidth
      gridHeight == config.gridHeight
      headX == gridWidth \div 2
      headY == gridHeight \div 2
      body == [i \in 1..(config.initialSnakeLength - 1) |->
                 Position(headX + i, headY)]
      cells == [py \in 0..(gridHeight - 1) |->
                 [px \in 0..(gridWidth - 1) |->
                    IF Occurs(Position(px, py), body) THEN "SNAKE_BODY"
                    ELSE IF px = headX /\ py = headY THEN "SNAKE_HEAD"
                    ELSE "EMPTY"]]
      snake == [head |-> Position(headX, headY), body |-> body,
                direction |-> "LEFT", growing |-> FALSE]
      empties == getRandomEmptyPosition(cells, gridWidth, gridHeight)
      built(foodPosition) ==
        [grid |-> [dimensions |-> [width |-> gridWidth, height |-> gridHeight],
                   cells |-> [cells EXCEPT ![foodPosition.y][foodPosition.x] = "FOOD"]],
         snake |-> snake,
         food |-> [position |-> foodPosition, value |-> FoodValue],
         status |-> "RUNNING",
         score |-> 0,
         speed |-> config.speed,
         obstacles |-> <<>>,
         isPaused |-> FALSE,
         hasWalls |-> config.hasWalls,
         allowWrapping |-> config.allowWrapping]
  IN {built(p) : p \in empties}

\* init returns one Model per food cell Math.random can select; the set is
\* empty exactly when getRandomEmptyPosition throws inside init.
init(config) ==
  LET gridWidth == config.gridWidth
      gridHeight == config.gridHeight
      headX == gridWidth \div 4
      headY == gridHeight \div 2
      body == [i \in 1..(config.initialSnakeLength - 1) |->
                 Position(headX + i, headY)]
      cells == [py \in 0..(gridHeight - 1) |->
                 [px \in 0..(gridWidth - 1) |->
                    IF Occurs(Position(px, py), body) THEN "SNAKE_BODY"
                    ELSE IF px = headX /\ py = headY THEN "SNAKE_HEAD"
                    ELSE "EMPTY"]]
      snake == [head |-> Position(headX, headY), body |-> body,
                direction |-> "LEFT", growing |-> FALSE]
      empties == getRandomEmptyPosition(cells, gridWidth, gridHeight)
      built(foodPosition) ==
        [grid |-> [dimensions |-> [width |-> gridWidth, height |-> gridHeight],
                   cells |-> [cells EXCEPT ![foodPosition.y][foodPosition.x] = "FOOD"]],
         snake |-> snake,
         food |-> [position |-> foodPosition, value |-> FoodValue],
         status |-> "RUNNING",
         score |-> 0,
         speed |-> config.speed,
         obstacles |-> <<>>,
         isPaused |-> FALSE,
         hasWalls |-> config.hasWalls,
         allowWrapping |-> config.allowWrapping]
  IN {built(p) : p \in empties}

\* validateGameState(model): the checks it makes, in its order.  A Model
\* always carries a food with a position, so the check of invariant 6 never
\* fails and is left out.
validateGameState(model) ==
  LET head == model.snake.head
      body == model.snake.body
      chain == <<head>> \o body
      food == model.food.position
      continuous ==
        \A i \in 1..Len(body) :
          Abs(body[i].x - chain[i].x) + Abs(body[i].y - chain[i].y) = 1
      bodyUnique ==
        \A i \in 1..Len(body) :
          /\ body[i] # head
          /\ \A j \in 1..(i - 1) : body[j] # body[i]
      obstaclesUnique ==
        \A i \in 1..Len(model.obstacles) :
          /\ ~Occurs(model.obstacles[i], chain)
          /\ model.obstacles[i] # food
          /\ \A j \in 1..(i - 1) : model.obstacles[j] # model.obstacles[i]
  IN /\ ~(model.grid.dimensions.width <= 0 \/ model.grid.dimensions.height <= 0)
     /\ continuous
     /\ InGrid(food, model.grid.dimensions.width, model.grid.dimensions.height)
     /\ ~(food = head \/ Occurs(food, body))
     /\ ~Occurs(food, model.obstacles)
     /\ model.status \in GameStatus
     /\ model.snake.direction \in Directions
     /\ bodyUnique
     /\ ~Occurs(food, chain)
     /\ obstaclesUnique

\* ------------------------------------------------------------ update.ts

\* detectCollision with the upper bounds tested by > instead of >=.
detectCollision_OffByOne(model, newHead) ==
  LET width == model.grid.dimensions.width
      height == model.grid.dimensions.height
  IN IF newHead.x < 0 \/ newHead.x > width \/ newHead.y < 0 \/ newHead.y > height
       THEN [hasCollision |-> TRUE, collisionType |-> "WALL"]
     ELSE IF Occurs(newHead, model.snake.body)
       THEN [hasCollision |-> TRUE, collisionType |-> "SELF"]
     ELSE IF Occurs(newHead, model.obstacles)
       THEN [hasCollision |-> TRUE, collisionType |-> "OBSTACLE"]
     ELSE IF model.food.position = newHead
       THEN [hasCollision |-> TRUE, collisionType |-> "FOOD"]
     ELSE [hasCollision |-> FALSE, collisionType |-> "NONE"]

detectCollision(model, newHead) ==
  LET width == model.grid.dimensions.width
      height == model.grid.dimensions.height
  IN IF newHead.x < 0 \/ newHead.x >= width \/ newHead.y < 0 \/ newHead.y >= height
       THEN [hasCollision |-> TRUE, collisionType |-> "WALL"]
     ELSE IF Occurs(newHead, model.snake.body)
       THEN [hasCollision |-> TRUE, collisionType |-> "SELF"]
     ELSE IF Occurs(newHead, model.obstacles)
       THEN [hasCollision |-> TRUE, collisionType |-> "OBSTACLE"]
     ELSE IF model.food.position = newHead
       THEN [hasCollision |-> TRUE, collisionType |-> "FOOD"]
     ELSE [hasCollision |-> FALSE, collisionType |-> "NONE"]

\* isValidDirectionChange without the LEFT -> RIGHT pair.
isValidDirectionChange_MissesLeftRight(currentDirection, newDirection) ==
  ~ \/ (currentDirection = "UP" /\ newDirection = "DOWN")
    \/ (currentDirection = "DOWN" /\ newDirection = "UP")
    \/ (currentDirection = "RIGHT" /\ newDirection = "LEFT")

isValidDirectionChange(currentDirection, newDirection) ==
  ~ \/ (currentDirection = "UP" /\ newDirection = "DOWN")
    \/ (currentDirection = "DOWN" /\ newDirection = "UP")
    \/ (currentDirection = "LEFT" /\ newDirection = "RIGHT")
    \/ (currentDirection = "RIGHT" /\ newDirection = "LEFT")

calculateNewHeadPosition(position, direction) ==
  CASE direction = "UP" -> [position EXCEPT !.y = @ - 1]
    [] direction = "DOWN" -> [position EXCEPT !.y = @ + 1]
    [] direction = "LEFT" -> [position EXCEPT !.x = @ - 1]
    [] direction = "RIGHT" -> [position EXCEPT !.x = @ + 1]

applyWrapping(position, width, height) ==
  LET x1 == IF position.x < 0 THEN width - 1 ELSE position.x
      x2 == IF x1 >= width THEN 0 ELSE x1
      y1 == IF position.y < 0 THEN height - 1 ELSE position.y
      y2 == IF y1 >= height THEN 0 ELSE y1
  IN Position(x2, y2)

\* The CHANGE_DIRECTION case turning the snake only while the game runs.
updateChangeDirection_IgnoredWhilePaused(model, newDirection) ==
  IF ~isValidDirectionChange(model.snake.direction, newDirection)
       \/ model.status = "PAUSED"
    THEN {Returned(model)}
    ELSE {Returned([model EXCEPT !.snake.direction = newDirection])}

\* case 'CHANGE_DIRECTION'
updateChangeDirection(model, newDirection) ==
  IF ~isValidDirectionChange(model.snake.direction, newDirection)
    THEN {Returned(model)}
    ELSE {Returned([model EXCEPT !.snake.direction = newDirection])}

\* The head the MOVE_SNAKE case tries to move to.
prospectiveHead(model) ==
  LET stepped == calculateNewHeadPosition(model.snake.head, model.snake.direction)
  IN IF model.allowWrapping
       THEN applyWrapping(stepped, model.grid.dimensions.width,
                          model.grid.dimensions.height)
       ELSE stepped

\* The lethal branch also clearing the score.
gameOver_ResetsScore(model, newHead) ==
  [model EXCEPT !.status = "GAME_OVER", !.score = 0]

\* The lethal branch run after the head has been moved.
gameOver_MovesHead(model, newHead) ==
  [model EXCEPT !.status = "GAME_OVER", !.snake.head = newHead]

\* The WALL / SELF / OBSTACLE branch of MOVE_SNAKE.
gameOver(model, newHead) == [model EXCEPT !.status = "GAME_OVER"]

\* moveBody without the old head put in front.
moveBody_DropsHead(snake, ateFood) ==
  LET newBody == snake.body
  IN IF ~snake.growing /\ ~ateFood
       THEN SubSeq(newBody, 1, Len(newBody) - 1)
       ELSE newBody

\* moveBody popping the tail on every move that eats nothing, the growing
\* flag ignored.
moveBody_IgnoresGrowing(snake, ateFood) ==
  LET newBody == <<snake.head>> \o snake.body
  IN IF ~ateFood
       THEN SubSeq(newBody, 1, Len(newBody) - 1)
       ELSE newBody

\* The body after the move: the old head in front, the tail popped unless
\* the snake is growing or has just eaten.
moveBody(snake, ateFood) ==
  LET newBody == <<snake.head>> \o snake.body
  IN IF ~snake.growing /\ ~ateFood
       THEN SubSeq(newBody, 1, Len(newBody) - 1)
       ELSE newBody

\* The cells after the snake has been cleared and drawn again: head first,
\* then every body segment, later writes over earlier ones.
redrawSnake(cells, newHead, newBody) ==
  [py \in DOMAIN cells |->
     [px \in DOMAIN cells[py] |->
        IF Occurs(Position(px, py), newBody) THEN "SNAKE_BODY"
        ELSE IF Position(px, py) = newHead THEN "SNAKE_HEAD"
        ELSE IF cells[py][px] \in {"SNAKE_HEAD", "SNAKE_BODY"} THEN "EMPTY"
        ELSE cells[py][px]]]

\* The try/catch block adding the food's value twice.
eatFood_ScoresTwice(moved) ==
  LET width == moved.grid.dimensions.width
      height == moved.grid.dimensions.height
      scored == [moved EXCEPT !.score = @ + moved.food.value + moved.food.value]
      empties == getRandomEmptyPosition(moved.grid.cells, width, height)
  IN IF empties = {}
       THEN {scored}
       ELSE {[scored EXCEPT
                !.food = [position |-> p, value |-> 1],
                !.grid.cells[p.y][p.x] = "FOOD"] : p \in empties}

\* The try/catch block run when food was eaten; moved is the model with the
\* snake and the cells already updated.
eatFood(moved) ==
  LET width == moved.grid.dimensions.width
      height == moved.grid.dimensions.height
      scored == [moved EXCEPT !.score = @ + moved.food.value]
      empties == getRandomEmptyPosition(moved.grid.cells, width, height)
  IN IF empties = {}
       THEN {scored}
       ELSE {[scored EXCEPT
                !.food = [position |-> p, value |-> 1],
                !.grid.cells[p.y][p.x] = "FOOD"] : p \in empties}

\* The MOVE_SNAKE case without the check for a paused game.
updateMoveSnake_IgnoresPause(model) ==
  LET width == model.grid.dimensions.width
      height == model.grid.dimensions.height
      newHead == prospectiveHead(model)
      collision == detectCollision(model, newHead)
      ateFood == collision.collisionType = "FOOD"
      newBody == moveBody(model.snake, ateFood)
      moved == [model EXCEPT
                  !.snake = [@ EXCEPT !.head = newHead, !.body = newBody,
                                      !.growing = ateFood],
                  !.grid.cells = redrawSnake(@, newHead, newBody)]
  IN IF collision.collisionType \in {"WALL", "SELF", "OBSTACLE"}
       THEN {Returned(gameOver(model, newHead))}
     ELSE IF ~InGrid(newHead, width, height)
             \/ \E i \in 1..Len(newBody) : ~InGrid(newBody[i], width, height)
       THEN {Thrown(model, "TypeError")}
     ELSE IF ateFood
       THEN {Returned(r) : r \in eatFood(moved)}
     ELSE {Returned(moved)}

\* The MOVE_SNAKE case never clearing the growing flag once it is set.
updateMoveSnake_KeepsGrowing(model) ==
  IF model.isPaused \/ model.status = "PAUSED"
    THEN {Returned(model)}
    ELSE
      LET width == model.grid.dimensions.width
          height == model.grid.dimensions.height
          newHead == prospectiveHead(model)
          collision == detectCollision(model, newHead)
          ateFood == collision.collisionType = "FOOD"
          newBody == moveBody(model.snake, ateFood)
          moved == [model EXCEPT
                      !.snake = [@ EXCEPT !.head = newHead, !.body = newBody,
                                          !.growing = (@ \/ ateFood)],
                      !.grid.cells = redrawSnake(@, newHead, newBody)]
      IN IF collision.collisionType \in {"WALL", "SELF", "OBSTACLE"}
           THEN {Returned(gameOver(model, newHead))}
         ELSE IF ~InGrid(newHead, width, height)
                 \/ \E i \in 1..Len(newBody) : ~InGrid(newBody[i], width, height)
           THEN {Thrown(model, "TypeError")}
         ELSE IF ateFood
           THEN {Returned(r) : r \in eatFood(moved)}
         ELSE {Returned(moved)}

\* case 'MOVE_SNAKE'
updateMoveSnake(model) ==
  IF model.isPaused \/ model.status = "PAUSED"
    THEN {Returned(model)}
    ELSE
      LET width == model.grid.dimensions.width
          height == model.grid.dimensions.height
          newHead == prospectiveHead(model)
          collision == detectCollision(model, newHead)
          ateFood == collision.collisionType = "FOOD"
          newBody == moveBody(model.snake, ateFood)
          moved == [model EXCEPT
                      !.snake = [@ EXCEPT !.head = newHead, !.body = newBody,
                                          !.growing = ateFood],
                      !.grid.cells = redrawSnake(@, newHead, newBody)]
      IN IF collision.collisionType \in {"WALL", "SELF", "OBSTACLE"}
           THEN {Returned(gameOver(model, newHead))}
         ELSE IF ~InGrid(newHead, width, height)
                 \/ \E i \in 1..Len(newBody) : ~InGrid(newBody[i], width, height)
           THEN {Thrown(model, "TypeError")}
         ELSE IF ateFood
           THEN {Returned(r) : r \in eatFood(moved)}
         ELSE {Returned(moved)}

\* The TOGGLE_PAUSE case flipping isPaused and leaving the status alone.
updateTogglePause_KeepsStatus(model) ==
  {Returned([model EXCEPT !.isPaused = ~model.isPaused])}

\* The TOGGLE_PAUSE case deriving the status from the flag as it was before
\* the flip.
updateTogglePause_StatusFromOldFlag(model) ==
  {Returned([model EXCEPT
               !.isPaused = ~model.isPaused,
               !.status = IF model.isPaused THEN "PAUSED" ELSE "RUNNING"])}

\* case 'TOGGLE_PAUSE'
updateTogglePause(model) ==
  LET paused == ~model.isPaused
  IN {Returned([model EXCEPT !.isPaused = paused,
                             !.status = IF paused THEN "PAUSED" ELSE "RUNNING"])}

\* The RESET_GAME case passing the grid's height as the width and its width
\* as the height.
updateResetGame_SwapsDimensions(model) ==
  LET fresh == init([gridWidth |-> model.grid.dimensions.height,
                     gridHeight |-> model.grid.dimensions.width,
                     initialSnakeLength |-> 3,
                     hasWalls |-> model.hasWalls,
                     speed |-> model.speed,
                     allowWrapping |-> model.allowWrapping])
  IN IF fresh = {}
       THEN {Thrown(model, "No empty cells available")}
       ELSE {Returned(r) : r \in fresh}

\* case 'RESET_GAME'
updateResetGame(model) ==
  LET fresh == init([gridWidth |-> model.grid.dimensions.width,
                     gridHeight |-> model.grid.dimensions.height,
                     initialSnakeLength |-> 3,
                     hasWalls |-> model.hasWalls,
                     speed |-> model.speed,
                     allowWrapping |-> model.allowWrapping])
  IN IF fresh = {}
       THEN {Thrown(model, "No empty cells available")}
       ELSE {Returned(r) : r \in fresh}

\* The switch statement of update.
dispatch(model, msg) ==
  CASE msg.type = "CHANGE_DIRECTION" -> updateChangeDirection(model, msg.payload)
    [] msg.type = "MOVE_SNAKE" -> updateMoveSnake(model)
    [] msg.type = "TOGGLE_PAUSE" -> updateTogglePause(model)
    [] msg.type = "RESET_GAME" -> updateResetGame(model)
    [] OTHER -> {Returned(model)}

\* update(model, msg): every result the call can have.
update(model, msg) ==
  IF model.status = "GAME_OVER" /\ msg.type # "RESET_GAME"
    THEN {Returned(model)}
    ELSE dispatch(model, msg)

\* ------------------------------------- model.ts and update, with high scores
\* The second Model of model.ts (highScores, minSpeed, maxSpeed, speedStep)
\* and the update written for it (src/unnamed/part_001).

MinSpeed == 2
MaxSpeed == 15
SpeedStep == 1
TopScores == 5

Min(a, b) == IF a < b THEN a ELSE b
Max(a, b) == IF a > b THEN a ELSE b

\* What a call of this update leaves behind: the Model returned (or kept,
\* when it threw), the exception, and the stored high-score list.
Outcome(m, e, stored) == [model |-> m, error |-> e, localStorage |-> stored]

\* highScores.sort((a, b) => b.score - a.score): descending by score, equal
\* scores keeping their order.
RECURSIVE sortByScore(_)
sortByScore(scores) ==
  IF Len(scores) <= 1 THEN scores
  ELSE LET last == scores[Len(scores)]
           front == sortByScore(SubSeq(scores, 1, Len(scores) - 1))
           ahead == {i \in 1..Len(front) : front[i].score >= last.score}
           k == Cardinality(ahead)
       IN SubSeq(front, 1, k) \o <<last>> \o SubSeq(front, k + 1, Len(front))

\* saveHighScore cutting the list to the top 5 before the new record is
\* sorted in: a sixth record is kept, or the lowest of the five is not dropped.
saveHighScore_SlicesFirst(stored, score, snakeLength) ==
  LET newScore == [score |-> score, date |-> "today", length |-> snakeLength]
      kept == SubSeq(stored, 1, Min(TopScores, Len(stored)))
  IN sortByScore(Append(kept, newScore))

\* saveHighScore(score, snakeLength): the list stored afterwards.
saveHighScore(stored, score, snakeLength) ==
  LET newScore == [score |-> score, date |-> "today", length |-> snakeLength]
      highScores == sortByScore(Append(stored, newScore))
  IN SubSeq(highScores, 1, Min(TopScores, Len(highScores)))

\* init of the second Model: the first one's state, the stored high scores
\* and the speed limits.
initHighScores(config, stored) ==
  {[grid |-> m.grid, snake |-> m.snake, food |-> m.food, status |-> m.status,
    score |-> m.score, highScores |-> stored, speed |-> m.speed,
    minSpeed |-> MinSpeed, maxSpeed |-> MaxSpeed, speedStep |-> SpeedStep,
    obstacles |-> m.obstacles, isPaused |-> m.isPaused,
    hasWalls |-> m.hasWalls, allowWrapping |-> m.allowWrapping] :
     m \in init(config)}

\* detectCollision(newHead, snake, grid, food, obstacles) of part_001: food
\* is tested before the obstacles.
detectCollisionHighScores(newHead, snake, grid, food, obstacles) ==
  LET width == grid.dimensions.width
      height == grid.dimensions.height
  IN IF newHead.x < 0 \/ newHead.x >= width \/ newHead.y < 0 \/ newHead.y >= height
       THEN [hasCollision |-> TRUE, collisionType |-> "WALL"]
     ELSE IF Occurs(newHead, snake.body)
       THEN [hasCollision |-> TRUE, collisionType |-> "SELF"]
     ELSE IF food.position = newHead
       THEN [hasCollision |-> TRUE, collisionType |-> "FOOD"]
     ELSE IF Occurs(newHead, obstacles)
       THEN [hasCollision |-> TRUE, collisionType |-> "OBSTACLE"]
     ELSE [hasCollision |-> FALSE, collisionType |-> "NONE"]

\* case 'MOVE_SNAKE' saving the body length as the snake length: the head is
\* not counted.
updateMoveSnakeHighScores_SavesBodyLength(model, stored) ==
  IF model.isPaused \/ model.status = "PAUSED"
    THEN {Outcome(model, "NONE", stored)}
    ELSE
      LET width == model.grid.dimensions.width
          height == model.grid.dimensions.height
          newHead == prospectiveHead(model)
          collision == detectCollisionHighScores(newHead, model.snake,
                         model.grid, model.food, model.obstacles)
          ateFood == collision.collisionType = "FOOD"
          newBody == moveBody(model.snake, ateFood)
          moved == [model EXCEPT
                      !.snake = [@ EXCEPT !.head = newHead, !.body = newBody,
                                          !.growing = ateFood],
                      !.grid.cells = redrawSnake(@, newHead, newBody)]
          scored == [moved EXCEPT !.score = @ + moved.food.value]
          empties == getRandomEmptyPosition(moved.grid.cells, width, height)
      IN IF collision.collisionType \in {"WALL", "SELF", "OBSTACLE"}
           THEN {Outcome([model EXCEPT !.status = "GAME_OVER"], "NONE",
                         saveHighScore(stored, model.score,
                                       Len(model.snake.body)))}
         ELSE IF ~InGrid(newHead, width, height)
                 \/ \E i \in 1..Len(newBody) : ~InGrid(newBody[i], width, height)
           THEN {Outcome(model, "TypeError", stored)}
         ELSE IF ateFood /\ empties = {}
           THEN {Outcome([scored EXCEPT !.score = @ + 1], "NONE", stored)}
         ELSE IF ateFood
           THEN {Outcome([scored EXCEPT
                            !.food = [position |-> p, value |-> 1],
                            !.grid.cells[p.y][p.x] = "FOOD"], "NONE", stored) :
                   p \in empties}
         ELSE {Outcome(moved, "NONE", stored)}

\* case 'MOVE_SNAKE' of part_001: a lethal move saves the high score; when
\* no cell is left for the food the catch block adds one more point, and
\* the snake it builds is overwritten by newModel.snake = newSnake.
updateMoveSnakeHighScores(model, stored) ==
  IF model.isPaused \/ model.status = "PAUSED"
    THEN {Outcome(model, "NONE", stored)}
    ELSE
      LET width == model.grid.dimensions.width
          height == model.grid.dimensions.height
          newHead == prospectiveHead(model)
          collision == detectCollisionHighScores(newHead, model.snake,
                         model.grid, model.food, model.obstacles)
          ateFood == collision.collisionType = "FOOD"
          newBody == moveBody(model.snake, ateFood)
          moved == [model EXCEPT
                      !.snake = [@ EXCEPT !.head = newHead, !.body = newBody,
                                          !.growing = ateFood],
                      !.grid.cells = redrawSnake(@, newHead, newBody)]
          scored == [moved EXCEPT !.score = @ + moved.food.value]
          empties == getRandomEmptyPosition(moved.grid.cells, width, height)
      IN IF collision.collisionType \in {"WALL", "SELF", "OBSTACLE"}
           THEN {Outcome([model EXCEPT !.status = "GAME_OVER"], "NONE",
                         saveHighScore(stored, model.score,
                                       Len(model.snake.body) + 1))}
         ELSE IF ~InGrid(newHead, width, height)
                 \/ \E i \in 1..Len(newBody) : ~InGrid(newBody[i], width, height)
           THEN {Outcome(model, "TypeError", stored)}
         ELSE IF ateFood /\ empties = {}
           THEN {Outcome([scored EXCEPT !.score = @ + 1], "NONE", stored)}
         ELSE IF ateFood
           THEN {Outcome([scored EXCEPT
                            !.food = [position |-> p, value |-> 1],
                            !.grid.cells[p.y][p.x] = "FOOD"], "NONE", stored) :
                   p \in empties}
         ELSE {Outcome(moved, "NONE", stored)}

\* CHANGE_SPEED never lowering the speed: both payloads take the UP branch.
updateChangeSpeed_AlwaysUp(model, payload) ==
  IF model.status # "RUNNING"
    THEN model
    ELSE [model EXCEPT
            !.speed = Min(model.speed + model.speedStep, model.maxSpeed)]

\* case 'CHANGE_SPEED'
updateChangeSpeed(model, payload) ==
  IF model.status # "RUNNING"
    THEN model
    ELSE LET newSpeed == IF payload = "UP"
                           THEN Min(model.speed + model.speedStep, model.maxSpeed)
                           ELSE Max(model.speed - model.speedStep, model.minSpeed)
         IN [model EXCEPT !.speed = newSpeed]

\* case 'RESET_GAME' of part_001: init reads the stored high scores.
updateResetGameHighScores(model, stored) ==
  LET fresh == initHighScores([gridWidth |-> model.grid.dimensions.width,
                               gridHeight |-> model.grid.dimensions.height,
                               initialSnakeLength |-> 3,
                               hasWalls |-> model.hasWalls,
                               speed |-> model.speed,
                               allowWrapping |-> model.allowWrapping], stored)
  IN IF fresh = {}
       THEN {Outcome(model, "No empty cells available for food placement",
                     stored)}
       ELSE {Outcome(r, "NONE", stored) : r \in fresh}

\* update(model, msg) of part_001 with the high-score list stored when it is
\* called: every result the call can have.
updateHighScores(model, msg, stored) ==
  IF model.status = "GAME_OVER" /\ msg.type # "RESET_GAME"
    THEN {Outcome(model, "NONE", stored)}
    ELSE CASE msg.type = "CHANGE_DIRECTION" ->
                {Outcome(r.model, r.error, stored) :
                   r \in updateChangeDirection(model, msg.payload)}
           [] msg.type = "MOVE_SNAKE" -> updateMoveSnakeHighScores(model, stored)
           [] msg.type = "CHANGE_SPEED" ->
                {Outcome(updateChangeSpeed(model, msg.payload), "NONE", stored)}
           [] msg.type = "TOGGLE_PAUSE" ->
                {Outcome(r.model, r.error, stored) :
                   r \in updateTogglePause(model)}
           [] msg.type = "RESET_GAME" -> updateResetGameHighScores(model, stored)
           [] OTHER -> {Outcome(model, "NONE", stored)}

\* ------------------------------------------- update with the tail excused
\* The update of src/unnamed/part_002, whose cells carry a type (HEAD, BODY,
\* FOOD, OBSTACLE, EMPTY) and whose detectCollision reads the cell under the
\* prospective head.  The model.ts it imports init from is not among the
\* sources; its init is taken to be init with the cells typed.

EntityType(content) ==
  CASE content = "SNAKE_HEAD" -> "HEAD"
    [] content = "SNAKE_BODY" -> "BODY"
    [] OTHER -> content

initTailExcuse(config) ==
  {[m EXCEPT !.grid.cells =
      [py \in DOMAIN m.grid.cells |->
         [px \in DOMAIN m.grid.cells[py] |->
            EntityType(m.grid.cells[py][px])]]] : m \in init(config)}

\* detectCollision(model, newHead) of part_002.
detectCollisionTailExcuse(model, newHead) ==
  LET width == model.grid.dimensions.width
      height == model.grid.dimensions.height
      body == model.snake.body
      outside == newHead.x < 0 \/ newHead.x >= width
                   \/ newHead.y < 0 \/ newHead.y >= height
  IN IF model.hasWalls /\ outside
       THEN [hasCollision |-> TRUE, collisionType |-> "WALL"]
     ELSE IF outside
       THEN [hasCollision |-> FALSE, collisionType |-> "NONE"]
     ELSE LET type == model.grid.cells[newHead.y][newHead.x]
          IN IF type = "BODY" /\ Len(body) > 1 /\ body[Len(body)] # newHead
               THEN [hasCollision |-> TRUE, collisionType |-> "BODY"]
             ELSE IF type = "BODY"
               THEN [hasCollision |-> FALSE, collisionType |-> "NONE"]
             ELSE IF type = "OBSTACLE"
               THEN [hasCollision |-> TRUE, collisionType |-> "OBSTACLE"]
             ELSE IF type = "FOOD"
               THEN [hasCollision |-> TRUE, collisionType |-> "FOOD"]
             ELSE [hasCollision |-> FALSE, collisionType |-> "NONE"]

\* The cells of part_002 after the snake has been cleared and drawn again:
\* a head or segment off the grid is skipped, later writes go over earlier
\* ones.
redrawSnakeTailExcuse(cells, newHead, newBody) ==
  [py \in DOMAIN cells |->
     [px \in DOMAIN cells[py] |->
        IF Occurs(Position(px, py), newBody) THEN "BODY"
        ELSE IF Position(px, py) = newHead THEN "HEAD"
        ELSE IF cells[py][px] \in {"HEAD", "BODY"} THEN "EMPTY"
        ELSE cells[py][px]]]

\* case 'MOVE_SNAKE' of part_002
updateMoveSnakeTailExcuse(model) ==
  IF model.isPaused \/ model.status = "PAUSED"
    THEN {Returned(model)}
    ELSE
      LET width == model.grid.dimensions.width
          height == model.grid.dimensions.height
          newHead == prospectiveHead(model)
          collision == detectCollisionTailExcuse(model, newHead)
          ateFood == collision.collisionType = "FOOD"
          newBody == moveBody(model.snake, ateFood)
          moved == [model EXCEPT
                      !.snake = [@ EXCEPT !.head = newHead, !.body = newBody,
                                          !.growing = ateFood],
                      !.grid.cells = redrawSnakeTailExcuse(@, newHead, newBody)]
      IN IF collision.collisionType \in {"WALL", "BODY", "OBSTACLE"}
           THEN {Returned([model EXCEPT !.status = "GAME_OVER"])}
         ELSE IF ateFood
           THEN {Returned(r) : r \in eatFood(moved)}
         ELSE {Returned(moved)}

\* case 'RESET_GAME' of part_002
updateResetGameTailExcuse(model) ==
  LET fresh == initTailExcuse([gridWidth |-> model.grid.dimensions.width,
                               gridHeight |-> model.grid.dimensions.height,
                               initialSnakeLength |-> 3,
                               hasWalls |-> model.hasWalls,
                               speed |-> model.speed,
                               allowWrapping |-> model.allowWrapping])
  IN IF fresh = {}
       THEN {Thrown(model, "No empty cells available")}
       ELSE {Returned(r) : r \in fresh}

\* update(model, msg) of part_002: every result the call can have.
updateTailExcuse(model, msg) ==
  IF model.status = "GAME_OVER" /\ msg.type # "RESET_GAME"
    THEN {Returned(model)}
    ELSE CASE msg.type = "CHANGE_DIRECTION" ->
                updateChangeDirection(model, msg.payload)
           [] msg.type = "MOVE_SNAKE" -> updateMoveSnakeTailExcuse(model)
           [] msg.type = "TOGGLE_PAUSE" -> updateTogglePause(model)
           [] msg.type = "RESET_GAME" -> updateResetGameTailExcuse(model)
           [] OTHER -> {Returned(model)}

\* ------------------------------------------------------------ the driver

\* model: the Model the driver holds (the accumulator of scan in main.ts)
\* msg:   the event applied last
\* error: the exception update threw on that event, "NONE" if it returned
\* meal:  the snake length before the last food eaten from a non-growing
\*        state, and whether an executed move has followed it
\* gameConfig: the InitConfig the game was created with
\* localStorage: the list stored under 'snakeHighScores'
\* collisionResult: what the last direct call of detectCollision returned
\* recorded: the scores saveHighScore has been called with directly, in order
VARIABLES model, msg, error, meal, gameConfig, localStorage, collisionResult,
          recorded

vars ==
  <<model, msg, error, meal, gameConfig, localStorage, collisionResult,
    recorded>>

\* The CollisionResult held before detectCollision has been called.
NoCollision == [hasCollision |-> FALSE, collisionType |-> "NONE"]

\* The grids the game is started on, as <<width, height>>.
GridSizes == {<<3, 2>>, <<4, 2>>, <<4, 1>>, <<5, 1>>}

\* The configurations init is called with: each of the grids, the snake
\* length every caller passes, both flags free.
Configs ==
  {[gridWidth |-> g[1], gridHeight |-> g[2],
    initialSnakeLength |-> InitialSnakeLength,
    hasWalls |-> walls, speed |-> DefaultSpeed, allowWrapping |-> wrap] :
     g \in GridSizes, walls \in BOOLEAN, wrap \in BOOLEAN}

\* The snake fits on its row.
Fits(config) ==
  (config.gridWidth \div 4) + config.initialSnakeLength <= config.gridWidth

NoMeal == [lengthBefore |-> 0, movesAfter |-> 0]

SnakeLength(m) == 1 + Len(m.snake.body)

\* A MOVE_SNAKE that update carries out: not skipped, not lethal.
Executed(before, m) ==
  /\ m.type = "MOVE_SNAKE"
  /\ before.status = "RUNNING"
  /\ ~before.isPaused
  /\ detectCollision(before, prospectiveHead(before)).collisionType
       \in {"FOOD", "NONE"}

Eats(before, m) ==
  /\ Executed(before, m)
  /\ detectCollision(before, prospectiveHead(before)).collisionType = "FOOD"

observeMeal(before, m) ==
  IF m.type = "RESET_GAME" THEN NoMeal
  ELSE IF Eats(before, m)
    THEN IF before.snake.growing
           THEN NoMeal
           ELSE [lengthBefore |-> SnakeLength(before), movesAfter |-> 0]
  ELSE IF Executed(before, m) /\ meal.lengthBefore > 0
    THEN [meal EXCEPT !.movesAfter = 1]
  ELSE meal

Init ==
  /\ gameConfig \in Configs
  /\ Fits(gameConfig)
  /\ model \in init(gameConfig)
  /\ localStorage = <<>>
  /\ msg = [type |-> "INIT", payload |-> NoPayload]
  /\ error = "NONE"
  /\ meal = NoMeal
  /\ collisionResult = NoCollision
  /\ recorded = <<>>

\* The driver applies one event at a time, scan(update, initialModel) in
\* main.ts, as long as no exception has ended the stream.
Ready ==
  /\ model.status \in GameStatus
  /\ error = "NONE"
  /\ model.score < MaxScore

ChangeDirection ==
  \E d \in Directions :
    LET m == [type |-> "CHANGE_DIRECTION", payload |-> d]
    IN /\ Ready
       /\ \E r \in update(model, m) : model' = r.model /\ error' = r.error
       /\ msg' = m
       /\ meal' = observeMeal(model, m)
       /\ UNCHANGED <<gameConfig, localStorage, collisionResult, recorded>>

MoveSnake ==
  LET m == [type |-> "MOVE_SNAKE", payload |-> NoPayload]
  IN /\ Ready
     /\ \E r \in update(model, m) : model' = r.model /\ error' = r.error
     /\ msg' = m
     /\ meal' = observeMeal(model, m)
     /\ UNCHANGED <<gameConfig, localStorage, collisionResult, recorded>>

TogglePause ==
  LET m == [type |-> "TOGGLE_PAUSE", payload |-> NoPayload]
  IN /\ Ready
     /\ \E r \in update(model, m) : model' = r.model /\ error' = r.error
     /\ msg' = m
     /\ meal' = observeMeal(model, m)
     /\ UNCHANGED <<gameConfig, localStorage, collisionResult, recorded>>

ResetGame ==
  LET m == [type |-> "RESET_GAME", payload |-> NoPayload]
  IN /\ Ready
     /\ \E r \in update(model, m) : model' = r.model /\ error' = r.error
     /\ msg' = m
     /\ meal' = observeMeal(model, m)
     /\ UNCHANGED <<gameConfig, localStorage, collisionResult, recorded>>

ChangeSpeed ==
  \E p \in {"UP", "DOWN"} :
    LET m == [type |-> "CHANGE_SPEED", payload |-> p]
    IN /\ Ready
       /\ \E r \in update(model, m) : model' = r.model /\ error' = r.error
       /\ msg' = m
       /\ meal' = observeMeal(model, m)
       /\ UNCHANGED <<gameConfig, localStorage, collisionResult, recorded>>

Next ==
  \/ ChangeDirection
  \/ MoveSnake
  \/ TogglePause
  \/ ResetGame
  \/ ChangeSpeed

Spec == Init /\ [][Next]_vars

\* ------------------------------------------- any configuration at all

\* The grids init is called with when nothing is assumed about the
\* configuration: a dimension may be zero or negative, the row may be too
\* short for the snake.
AnyGridSizes == {<<0, 1>>, <<1, 0>>, <<-1, 1>>, <<2, 2>>, <<3, 1>>, <<3, 2>>}

SnakeLengths == {2, 3, 4}

AnyConfigs ==
  {[gridWidth |-> g[1], gridHeight |-> g[2],
    initialSnakeLength |-> n,
    hasWalls |-> walls, speed |-> DefaultSpeed, allowWrapping |-> wrap] :
     g \in AnyGridSizes, n \in SnakeLengths,
     walls \in BOOLEAN, wrap \in BOOLEAN}

\* What the driver holds when init has not returned a Model.
NoModel == [status |-> "NONE"]

\* A call of init: Array(n) throws a RangeError for a negative n, the write
\* to cells[headY][headX] a TypeError when the grid has no such cell, and
\* getRandomEmptyPosition its own error when the snake fills the grid.
initCall(c) ==
  IF c.gridHeight < 0 THEN {Thrown(NoModel, "RangeError")}
  ELSE IF c.gridHeight = 0 THEN {Thrown(NoModel, "TypeError")}
  ELSE IF c.gridWidth < 0 THEN {Thrown(NoModel, "RangeError")}
  ELSE IF c.gridWidth = 0 THEN {Thrown(NoModel, "TypeError")}
  ELSE IF init(c) = {} THEN {Thrown(NoModel, "No empty cells available")}
  ELSE {Returned(m) : m \in init(c)}

InitAnyConfig ==
  /\ gameConfig \in AnyConfigs
  /\ model = NoModel
  /\ localStorage = <<>>
  /\ msg = [type |-> "NONE", payload |-> NoPayload]
  /\ error = "NONE"
  /\ meal = NoMeal
  /\ collisionResult = NoCollision
  /\ recorded = <<>>

\* const initialModel = init(gameConfig)
CallInit ==
  /\ model = NoModel
  /\ error = "NONE"
  /\ \E r \in initCall(gameConfig) : model' = r.model /\ error' = r.error
  /\ msg' = [type |-> "INIT", payload |-> NoPayload]
  /\ UNCHANGED <<meal, gameConfig, localStorage, collisionResult, recorded>>

NextAnyConfig ==
  \/ CallInit
  \/ ChangeDirection
  \/ MoveSnake
  \/ TogglePause
  \/ ResetGame
  \/ ChangeSpeed

SpecAnyConfig == InitAnyConfig /\ [][NextAnyConfig]_vars

\* --------------------------------------------- the high-score variant

\* The most high scores a run saves before the driver is stopped.
MaxRecords == 2

HighScoreGridSizes == {<<4, 1>>}

\* The speeds the game is started with: the default and both limits.
Speeds == {MinSpeed, DefaultSpeed, MaxSpeed}

HighScoreConfigs ==
  {[gridWidth |-> g[1], gridHeight |-> g[2],
    initialSnakeLength |-> InitialSnakeLength,
    hasWalls |-> walls, speed |-> v, allowWrapping |-> wrap] :
     g \in HighScoreGridSizes, v \in Speeds,
     walls \in BOOLEAN, wrap \in BOOLEAN}

InitHighScores ==
  /\ gameConfig \in HighScoreConfigs
  /\ localStorage = <<>>
  /\ model \in initHighScores(gameConfig, localStorage)
  /\ msg = [type |-> "INIT", payload |-> NoPayload]
  /\ error = "NONE"
  /\ meal = NoMeal
  /\ collisionResult = NoCollision
  /\ recorded = <<>>

ReadyHighScores ==
  /\ Ready
  /\ Len(localStorage) < MaxRecords

ChangeDirectionHighScores ==
  \E d \in Directions :
    LET m == [type |-> "CHANGE_DIRECTION", payload |-> d]
    IN /\ ReadyHighScores
       /\ \E r \in updateHighScores(model, m, localStorage) :
            /\ model' = r.model
            /\ error' = r.error
            /\ localStorage' = r.localStorage
       /\ msg' = m
       /\ UNCHANGED <<meal, gameConfig, collisionResult, recorded>>

MoveSnakeHighScores ==
  LET m == [type |-> "MOVE_SNAKE", payload |-> NoPayload]
  IN /\ ReadyHighScores
     /\ \E r \in updateHighScores(model, m, localStorage) :
          /\ model' = r.model
          /\ error' = r.error
          /\ localStorage' = r.localStorage
     /\ msg' = m
     /\ UNCHANGED <<meal, gameConfig, collisionResult, recorded>>

TogglePauseHighScores ==
  LET m == [type |-> "TOGGLE_PAUSE", payload |-> NoPayload]
  IN /\ ReadyHighScores
     /\ \E r \in updateHighScores(model, m, localStorage) :
          /\ model' = r.model
          /\ error' = r.error
          /\ localStorage' = r.localStorage
     /\ msg' = m
     /\ UNCHANGED <<meal, gameConfig, collisionResult, recorded>>

ResetGameHighScores ==
  LET m == [type |-> "RESET_GAME", payload |-> NoPayload]
  IN /\ ReadyHighScores
     /\ \E r \in updateHighScores(model, m, localStorage) :
          /\ model' = r.model
          /\ error' = r.error
          /\ localStorage' = r.localStorage
     /\ msg' = m
     /\ UNCHANGED <<meal, gameConfig, collisionResult, recorded>>

ChangeSpeedHighScores ==
  \E p \in {"UP", "DOWN"} :
    LET m == [type |-> "CHANGE_SPEED", payload |-> p]
    IN /\ ReadyHighScores
       /\ \E r \in updateHighScores(model, m, localStorage) :
            /\ model' = r.model
            /\ error' = r.error
            /\ localStorage' = r.localStorage
       /\ msg' = m
       /\ UNCHANGED <<meal, gameConfig, collisionResult, recorded>>

NextHighScores ==
  \/ ChangeDirectionHighScores
  \/ MoveSnakeHighScores
  \/ TogglePauseHighScores
  \/ ResetGameHighScores
  \/ ChangeSpeedHighScores

SpecHighScores == InitHighScores /\ [][NextHighScores]_vars

\* ------------------------------------------- the tail-excusing variant

TailExcuseGridSizes == {<<3, 2>>, <<4, 1>>}

TailExcuseConfigs ==
  {[gridWidth |-> g[1], gridHeight |-> g[2],
    initialSnakeLength |-> InitialSnakeLength,
    hasWalls |-> walls, speed |-> DefaultSpeed, allowWrapping |-> wrap] :
     g \in TailExcuseGridSizes, walls \in BOOLEAN, wrap \in BOOLEAN}

InitTailExcuse ==
  /\ gameConfig \in TailExcuseConfigs
  /\ model \in initTailExcuse(gameConfig)
  /\ localStorage = <<>>
  /\ msg = [type |-> "INIT", payload |-> NoPayload]
  /\ error = "NONE"
  /\ meal = NoMeal
  /\ collisionResult = NoCollision
  /\ recorded = <<>>

\* With neither walls nor wrapping this variant lets the snake leave the
\* grid and wander without bound; the model follows it until the head is off
\* the grid and no further.
ReadyTailExcuse ==
  /\ Ready
  /\ model.snake.head.x \in 0..(model.grid.dimensions.width - 1)
  /\ model.snake.head.y \in 0..(model.grid.dimensions.height - 1)

ChangeDirectionTailExcuse ==
  \E d \in Directions :
    LET m == [type |-> "CHANGE_DIRECTION", payload |-> d]
    IN /\ ReadyTailExcuse
       /\ \E r \in updateTailExcuse(model, m) :
            model' = r.model /\ error' = r.error
       /\ msg' = m
       /\ UNCHANGED <<meal, gameConfig, localStorage, collisionResult, recorded>>

MoveSnakeTailExcuse ==
  LET m == [type |-> "MOVE_SNAKE", payload |-> NoPayload]
  IN /\ ReadyTailExcuse
     /\ \E r \in updateTailExcuse(model, m) :
          model' = r.model /\ error' = r.error
     /\ msg' = m
     /\ UNCHANGED <<meal, gameConfig, localStorage, collisionResult, recorded>>

TogglePauseTailExcuse ==
  LET m == [type |-> "TOGGLE_PAUSE", payload |-> NoPayload]
  IN /\ ReadyTailExcuse
     /\ \E r \in updateTailExcuse(model, m) :
          model' = r.model /\ error' = r.error
     /\ msg' = m
     /\ UNCHANGED <<meal, gameConfig, localStorage, collisionResult, recorded>>

ResetGameTailExcuse ==
  LET m == [type |-> "RESET_GAME", payload |-> NoPayload]
  IN /\ ReadyTailExcuse
     /\ \E r \in updateTailExcuse(model, m) :
          model' = r.model /\ error' = r.error
     /\ msg' = m
     /\ UNCHANGED <<meal, gameConfig, localStorage, collisionResult, recorded>>

NextTailExcuse ==
  \/ ChangeDirectionTailExcuse
  \/ MoveSnakeTailExcuse
  \/ TogglePauseTailExcuse
  \/ ResetGameTailExcuse

SpecTailExcuse == InitTailExcuse /\ [][NextTailExcuse]_vars

\* ------------------------------------------- the keyboard of main.ts

\* The keys keydown$ lets through.
Keys ==
  {"ArrowUp", "ArrowDown", "ArrowLeft", "ArrowRight", "r", "p", "u", "d"}

\* The Msg keydown$ maps a key to.  The payloads of CHANGE_SPEED are the
\* numbers +1 and -1, written here as the strings "+1" and "-1": a number
\* is never === to 'UP' or 'DOWN', as these strings are not equal to "UP"
\* or "DOWN".
keydown(key) ==
  CASE key = "r" -> [type |-> "RESET_GAME", payload |-> NoPayload]
    [] key = "p" -> [type |-> "TOGGLE_PAUSE", payload |-> NoPayload]
    [] key = "u" -> [type |-> "CHANGE_SPEED", payload |-> "+1"]
    [] key = "d" -> [type |-> "CHANGE_SPEED", payload |-> "-1"]
    [] key = "ArrowUp" -> [type |-> "CHANGE_DIRECTION", payload |-> "UP"]
    [] key = "ArrowDown" -> [type |-> "CHANGE_DIRECTION", payload |-> "DOWN"]
    [] key = "ArrowLeft" -> [type |-> "CHANGE_DIRECTION", payload |-> "LEFT"]
    [] key = "ArrowRight" -> [type |-> "CHANGE_DIRECTION", payload |-> "RIGHT"]

\* keydown$: a key is pressed and its Msg goes through scan(update, ...).
Keydown ==
  \E key \in Keys :
    LET m == keydown(key)
    IN /\ ReadyHighScores
       /\ \E r \in updateHighScores(model, m, localStorage) :
            /\ model' = r.model
            /\ error' = r.error
            /\ localStorage' = r.localStorage
       /\ msg' = m
       /\ UNCHANGED <<meal, gameConfig, collisionResult, recorded>>

\* messages$ = merge(keydown$, tick$, ...): keys and clock ticks.
NextKeydown ==
  \/ Keydown
  \/ MoveSnakeHighScores

SpecKeydown == InitHighScores /\ [][NextKeydown]_vars

\* ------------------------------------- detectCollision called directly
\* detectCollision is exported and takes any Model and any position, so it
\* is also applied on its own, to states in which two of its conditions can
\* hold at once.

DetectConfig ==
  [gridWidth |-> 2, gridHeight |-> 2, initialSnakeLength |-> 2,
   hasWalls |-> TRUE, speed |-> DefaultSpeed, allowWrapping |-> FALSE]

\* The positions tried as newHead: the cells of the grid and the ring of
\* positions around it.
ProspectiveHeads ==
  [x : (-1)..DetectConfig.gridWidth, y : (-1)..DetectConfig.gridHeight]

\* obstacles (model.ts: "For maze variations"): none, or one anywhere on
\* the grid; neither init nor update marks an obstacle's cell.
ObstacleLists ==
  {<<>>} \cup {<<p>> : p \in [x : 0..(DetectConfig.gridWidth - 1),
                              y : 0..(DetectConfig.gridHeight - 1)]}

\* The Models detectCollision is applied to: the states init returns for
\* DetectConfig and the states RESET_GAME returns for them, with the
\* obstacles filled in.
DetectInputs ==
  LET started == init(DetectConfig)
      reset == UNION {{r.model : r \in updateResetGame(m)} : m \in started}
  IN {[m EXCEPT !.obstacles = obs] :
        m \in started \cup reset, obs \in ObstacleLists}

InitDetectCollision ==
  /\ gameConfig = DetectConfig
  /\ model \in DetectInputs
  /\ localStorage = <<>>
  /\ msg = [type |-> "NONE", payload |-> NoPayload]
  /\ error = "NONE"
  /\ meal = NoMeal
  /\ collisionResult = NoCollision
  /\ recorded = <<>>

\* detectCollision(model, newHead) of update.ts; msg records the call.
CallDetectCollision ==
  \E newHead \in ProspectiveHeads :
    /\ collisionResult' = detectCollision(model, newHead)
    /\ msg' = [type |-> "detectCollision", payload |-> newHead]
    /\ UNCHANGED <<model, error, meal, gameConfig, localStorage, recorded>>

\* detectCollision(newHead, snake, grid, food, obstacles) of part_001.
CallDetectCollisionHighScores ==
  \E newHead \in ProspectiveHeads :
    /\ collisionResult' =
         detectCollisionHighScores(newHead, model.snake, model.grid,
                                   model.food, model.obstacles)
    /\ msg' = [type |-> "detectCollisionHighScores", payload |-> newHead]
    /\ UNCHANGED <<model, error, meal, gameConfig, localStorage, recorded>>

NextDetectCollision ==
  \/ CallDetectCollision
  \/ CallDetectCollisionHighScores

SpecDetectCollision == InitDetectCollision /\ [][NextDetectCollision]_vars

\* ------------------------------------------- saveHighScore called directly

\* The number of calls of saveHighScore the model follows.
MaxCalls == 7

\* The scores saveHighScore is called with.
Scores == 0..MaxScore

InitSaveHighScore ==
  /\ gameConfig = DetectConfig
  /\ model = NoModel
  /\ localStorage = <<>>
  /\ msg = [type |-> "INIT", payload |-> NoPayload]
  /\ error = "NONE"
  /\ meal = NoMeal
  /\ collisionResult = NoCollision
  /\ recorded = <<>>

\* saveHighScore(score, snakeLength), for a snake that has grown by one
\* segment for each point.
CallSaveHighScore ==
  \E score \in Scores :
    /\ Len(recorded) < MaxCalls
    /\ localStorage' =
         saveHighScore(localStorage, score, InitialSnakeLength + score)
    /\ recorded' = Append(recorded, score)
    /\ msg' = [type |-> "saveHighScore", payload |-> score]
    /\ UNCHANGED <<model, error, meal, gameConfig, collisionResult>>

NextSaveHighScore == CallSaveHighScore

SpecSaveHighScore == InitSaveHighScore /\ [][NextSaveHighScore]_vars

\* ---------------------------------------------------------------- claims

Opposite ==
  [d \in Directions |->
     CASE d = "UP" -> "DOWN" [] d = "DOWN" -> "UP"
       [] d = "LEFT" -> "RIGHT" [] d = "RIGHT" -> "LEFT"]

Width == model.grid.dimensions.width
Height == model.grid.dimensions.height
SnakeHead == model.snake.head
SnakeBody == model.snake.body

\* The head is on a grid edge and the direction points off the grid.
EdgeOutward ==
  \/ SnakeHead.x = 0 /\ model.snake.direction = "LEFT"
  \/ SnakeHead.x = Width - 1 /\ model.snake.direction = "RIGHT"
  \/ SnakeHead.y = 0 /\ model.snake.direction = "UP"
  \/ SnakeHead.y = Height - 1 /\ model.snake.direction = "DOWN"

\* The cell on the opposite edge of the head's row or column.
OppositeEdge ==
  CASE model.snake.direction = "LEFT" -> Position(Width - 1, SnakeHead.y)
    [] model.snake.direction = "RIGHT" -> Position(0, SnakeHead.y)
    [] model.snake.direction = "UP" -> Position(SnakeHead.x, Height - 1)
    [] model.snake.direction = "DOWN" -> Position(SnakeHead.x, 0)

\* C1: GAME_OVER is absorbing: in status GAME_OVER (of a game whose
\* configured snake fits the grid) every event other than RESET_GAME returns
\* the state unchanged, and RESET_GAME returns a state with status RUNNING.
C1_GameOverAbsorbing ==
  [][(Fits(gameConfig) /\ model.status = "GAME_OVER") =>
       /\ error' = "NONE"
       /\ IF msg'.type = "RESET_GAME"
            THEN model'.status = "RUNNING"
            ELSE model' = model]_vars

\* C2: no reversal: CHANGE_DIRECTION to the opposite of the current
\* direction returns the state unchanged, and no CHANGE_DIRECTION takes the
\* direction to its opposite.
C2_NoReversal ==
  [][msg'.type = "CHANGE_DIRECTION" =>
       /\ msg'.payload = Opposite[model.snake.direction] => model' = model
       /\ model'.snake.direction # Opposite[model.snake.direction]]_vars

\* The last event asked for the opposite of the direction the snake has
\* (and still has: the request was rejected) in a game that is not over.
C2_Witness ==
  /\ msg.type = "CHANGE_DIRECTION"
  /\ msg.payload = Opposite[model.snake.direction]
  /\ model.status # "GAME_OVER"

\* C3: growth exactness: once food has been eaten from a non-growing state
\* and at least one further executed, non-eating move has followed, the
\* snake is exactly one segment longer than before the eating move.
C3_GrowthExactness ==
  (meal.lengthBefore > 0 /\ meal.movesAfter >= 1) =>
    SnakeLength(model) = meal.lengthBefore + 1

\* C4: while the game is not over there is exactly one food, inside the
\* grid, not on the head, not on a body segment, not on an obstacle.
C4_FoodPlacement ==
  model.status # "GAME_OVER" =>
    /\ InGrid(model.food.position, Width, Height)
    /\ model.food.position # SnakeHead
    /\ ~Occurs(model.food.position, SnakeBody)
    /\ ~Occurs(model.food.position, model.obstacles)
    /\ Cardinality({p \in [x : 0..(Width - 1), y : 0..(Height - 1)] :
                      model.grid.cells[p.y][p.x] = "FOOD"}) = 1

C6_TailExcused ==
  [][(/\ msg'.type = "MOVE_SNAKE"
      /\ model.status = "RUNNING"
      /\ ~model.isPaused
      /\ ~model.snake.growing
      /\ Len(SnakeBody) > 0
      /\ prospectiveHead(model) = SnakeBody[Len(SnakeBody)]
      /\ model.food.position # SnakeBody[Len(SnakeBody)])
     => /\ model'.status = "RUNNING"
        /\ model'.snake.head = SnakeBody[Len(SnakeBody)]]_vars

\* C7: a lethal MOVE_SNAKE (WALL, SELF or OBSTACLE) in status RUNNING
\* returns the pre-move state with only the status changed to GAME_OVER.
C7_LethalFreezes ==
  [][(/\ msg'.type = "MOVE_SNAKE"
      /\ model.status = "RUNNING"
      /\ ~model.isPaused
      /\ detectCollision(model, prospectiveHead(model)).collisionType
           \in {"WALL", "SELF", "OBSTACLE"})
     => /\ model'.status = "GAME_OVER"
        /\ error' = "NONE"
        /\ [model' EXCEPT !.status = "RUNNING"] = model]_vars

\* The game has just ended on a move into the snake's own body.
C7_Witness ==
  /\ model.status = "GAME_OVER"
  /\ msg.type = "MOVE_SNAKE"
  /\ detectCollision(model, prospectiveHead(model)).collisionType = "SELF"

\* C8: with walls and without wrapping, a MOVE_SNAKE in status RUNNING from
\* an edge cell in the outward direction ends the game and leaves the head
\* where it was.
C8_WallCollision ==
  [][(/\ msg'.type = "MOVE_SNAKE"
      /\ model.hasWalls
      /\ ~model.allowWrapping
      /\ model.status = "RUNNING"
      /\ EdgeOutward)
     => /\ model'.status = "GAME_OVER"
        /\ model'.snake.head = SnakeHead]_vars

\* The game has just ended with the head on an edge, facing off the grid,
\* in wall mode.
C8_Witness ==
  /\ model.status = "GAME_OVER"
  /\ msg.type = "MOVE_SNAKE"
  /\ model.hasWalls
  /\ ~model.allowWrapping
  /\ EdgeOutward

\* C9: in wrap mode a MOVE_SNAKE in status RUNNING from an edge cell in the
\* outward direction puts the head on the opposite edge of the same row or
\* column and keeps the status RUNNING unless a body segment or obstacle is
\* there; and in wrap mode no move resolves to WALL.  Stated for the games
\* whose configured snake fits the grid.
C9_WrapMode ==
  /\ [][(/\ Fits(gameConfig)
         /\ msg'.type = "MOVE_SNAKE"
         /\ model.allowWrapping
         /\ ~model.hasWalls
         /\ model.status = "RUNNING"
         /\ EdgeOutward
         /\ ~Occurs(OppositeEdge, SnakeBody)
         /\ ~Occurs(OppositeEdge, model.obstacles))
        => /\ model'.snake.head = OppositeEdge
           /\ model'.status = "RUNNING"]_vars
  /\ []((/\ Fits(gameConfig)
          /\ model.status \in GameStatus
          /\ model.allowWrapping) =>
          detectCollision(model, prospectiveHead(model)).collisionType # "WALL")

Adjacent(a, b) ==
  LET dx == Abs(a.x - b.x)
      dy == Abs(a.y - b.y)
  IN \/ dx + dy = 1
     \/ /\ model.allowWrapping
        /\ \/ dy = 0 /\ dx = Width - 1
           \/ dx = 0 /\ dy = Height - 1

\* C10: continuity: consecutive elements of the chain head, body[0],
\* body[1], ... are at Manhattan distance 1 or, with wrapping allowed,
\* wrap-adjacent.
C10_Continuity ==
  LET chain == <<SnakeHead>> \o SnakeBody
  IN \A i \in 1..(Len(chain) - 1) : Adjacent(chain[i], chain[i + 1])

\* The snake straddles a vertical edge behind its neck: two consecutive
\* body segments are in the first and last column of one row.
C10_Witness ==
  /\ model.allowWrapping
  /\ Width > 2
  /\ \E i \in 1..(Len(SnakeBody) - 1) :
       /\ SnakeBody[i].y = SnakeBody[i + 1].y
       /\ Abs(SnakeBody[i].x - SnakeBody[i + 1].x) = Width - 1

\* C11: snake self-uniqueness: no position occurs twice in the chain head,
\* body[0], body[1], ...: the head is on no body segment and no two body
\* segments coincide.
C11_SelfUniqueness ==
  LET chain == <<SnakeHead>> \o SnakeBody
  IN \A i, j \in 1..Len(chain) : chain[i] = chain[j] => i = j

\* The cells left EMPTY once the snake of before has made its eating move.
emptyAfterEating(before) ==
  LET newHead == prospectiveHead(before)
      newBody == moveBody(before.snake, TRUE)
  IN getRandomEmptyPosition(
       redrawSnake(before.grid.cells, newHead, newBody),
       before.grid.dimensions.width, before.grid.dimensions.height)

\* C12: grid-full is surfaced: a MOVE_SNAKE that eats food and leaves no
\* EMPTY cell ends in an error reported to the caller or in a status of its
\* own, never in an ordinary RUNNING, PAUSED or GAME_OVER state returned
\* without error.
C12_GridFullSurfaced ==
  [][(/\ msg'.type = "MOVE_SNAKE"
      /\ Eats(model, msg')
      /\ emptyAfterEating(model) = {})
     => \/ error' # "NONE"
        \/ model'.status \notin GameStatus]_vars

\* C13: configuration errors fail fast: init raises an error and returns no
\* state when gridWidth or gridHeight is not positive or the snake does not
\* fit on its row, and a state init returns has the whole snake on the grid.
C13_ConfigErrorsFailFast ==
  [][msg'.type = "INIT" =>
       /\ (\/ gameConfig.gridWidth <= 0
           \/ gameConfig.gridHeight <= 0
           \/ ~Fits(gameConfig))
          => (error' # "NONE" /\ model'.status = "NONE")
       /\ model'.status # "NONE" =>
            /\ InGrid(model'.snake.head, gameConfig.gridWidth,
                      gameConfig.gridHeight)
            /\ \A i \in 1..Len(model'.snake.body) :
                 InGrid(model'.snake.body[i], gameConfig.gridWidth,
                        gameConfig.gridHeight)]_vars

WallMode == model.hasWalls /\ ~model.allowWrapping

\* C14: in wall mode (hasWalls true, allowWrapping false, the initial snake
\* fitting the grid) validateGameState returns true in every state reached
\* by CHANGE_DIRECTION, MOVE_SNAKE, TOGGLE_PAUSE and RESET_GAME events.
C14_ValidatorAcceptsWallMode ==
  WallMode => validateGameState(model)

WrapMode == model.allowWrapping /\ ~model.hasWalls

\* C15: the validator honours wrap-adjacency: in wrap mode (allowWrapping
\* on, hasWalls off) validateGameState returns true in every reachable
\* state, a snake straddling a grid edge after a wrapped move included.
\* Stated for the states in which the food is off the snake and no position
\* of the chain repeats, where only the continuity check is in question.
C15_ValidatorHonoursWrap ==
  (/\ WrapMode
   /\ ~Occurs(model.food.position, <<SnakeHead>> \o SnakeBody)
   /\ C11_SelfUniqueness)
  => validateGameState(model)

\* The cells of m whose content is FOOD.
FoodCells(m) ==
  {p \in [x : 0..(m.grid.dimensions.width - 1),
          y : 0..(m.grid.dimensions.height - 1)] :
     m.grid.cells[p.y][p.x] = "FOOD"}

\* C16: RESET_GAME, applied in any status, yields a state with status
\* RUNNING, isPaused false, score 0, growing false, direction LEFT, the snake
\* at the initial position for the grid, one food on a cell free of the
\* snake, and the grid size, hasWalls, allowWrapping and speed of the state
\* it was applied to.  Stated for the games whose configured snake fits the
\* grid.
C16_ResetGame ==
  [][(Fits(gameConfig) /\ msg'.type = "RESET_GAME") =>
       LET width == model.grid.dimensions.width
           height == model.grid.dimensions.height
           headX == width \div 4
           headY == height \div 2
           fresh == model'
       IN /\ error' = "NONE"
          /\ fresh.status = "RUNNING"
          /\ ~fresh.isPaused
          /\ fresh.score = 0
          /\ ~fresh.snake.growing
          /\ fresh.snake.direction = "LEFT"
          /\ fresh.snake.head = Position(headX, headY)
          /\ \A i \in 1..Len(fresh.snake.body) :
               fresh.snake.body[i] = Position(headX + i, headY)
          /\ InGrid(fresh.food.position, width, height)
          /\ ~Occurs(fresh.food.position,
                     <<fresh.snake.head>> \o fresh.snake.body)
          /\ FoodCells(fresh) = {fresh.food.position}
          /\ fresh.grid.dimensions = model.grid.dimensions
          /\ fresh.hasWalls = model.hasWalls
          /\ fresh.allowWrapping = model.allowWrapping
          /\ fresh.speed = model.speed]_vars

\* C17: TOGGLE_PAUSE in status RUNNING yields PAUSED, in status PAUSED
\* yields RUNNING, and in status GAME_OVER leaves the state unchanged.
C17_TogglePause ==
  [][msg'.type = "TOGGLE_PAUSE" =>
       /\ error' = "NONE"
       /\ model.status = "RUNNING" => model'.status = "PAUSED"
       /\ model.status = "PAUSED" => model'.status = "RUNNING"
       /\ model.status = "GAME_OVER" => model' = model]_vars

\* A game with food eaten has just been resumed: the last event was
\* TOGGLE_PAUSE and the status is RUNNING, so it was PAUSED before.
C17_Witness ==
  /\ msg.type = "TOGGLE_PAUSE"
  /\ model.status = "RUNNING"
  /\ model.score > 0

\* C18: MOVE_SNAKE is a no-op while paused or over: in status PAUSED (or
\* with isPaused true) or GAME_OVER it returns the state unchanged, head,
\* body, growing, food, score, status and cells included.
C18_MoveSnakeNoOp ==
  [][(/\ msg'.type = "MOVE_SNAKE"
      /\ \/ model.status \in {"PAUSED", "GAME_OVER"}
         \/ model.isPaused)
     => /\ error' = "NONE"
        /\ model' = model]_vars

\* A MOVE_SNAKE has been applied to a paused game whose next move would
\* have been carried out.
C18_Witness ==
  /\ msg.type = "MOVE_SNAKE"
  /\ model.status = "PAUSED"
  /\ detectCollision(model, prospectiveHead(model)).collisionType
       \in {"FOOD", "NONE"}

Projection(p) ==
  IF p = SnakeHead THEN "SNAKE_HEAD"
  ELSE IF Occurs(p, SnakeBody) THEN "SNAKE_BODY"
  ELSE IF p = model.food.position THEN "FOOD"
  ELSE IF Occurs(p, model.obstacles) THEN "OBSTACLE"
  ELSE "EMPTY"

\* C20: the cell grid is an exact projection of (snake, food, obstacles):
\* the head's cell is SNAKE_HEAD, each body cell SNAKE_BODY, the food's cell
\* FOOD, every other cell EMPTY; so exactly one cell is SNAKE_HEAD, the one
\* at snake.head, and exactly one cell is FOOD.
C20_CellsAreProjection ==
  LET positions == [x : 0..(Width - 1), y : 0..(Height - 1)]
  IN /\ \A p \in positions : model.grid.cells[p.y][p.x] = Projection(p)
     /\ {p \in positions : model.grid.cells[p.y][p.x] = "SNAKE_HEAD"}
          = {SnakeHead}
     /\ Cardinality(FoodCells(model)) = 1

\* C21: grid shape invariance: in every state reached from init by any
\* sequence of events, grid.dimensions equals the configured width and
\* height, and the cells array has exactly height rows of exactly width
\* cells.
C21_GridShape ==
  model.status \in GameStatus =>
    /\ model.grid.dimensions =
         [width |-> gameConfig.gridWidth, height |-> gameConfig.gridHeight]
    /\ DOMAIN model.grid.cells = 0..(gameConfig.gridHeight - 1)
    /\ \A py \in DOMAIN model.grid.cells :
         DOMAIN model.grid.cells[py] = 0..(gameConfig.gridWidth - 1)

\* A game on a grid wider than high has just been reset and runs again.
C21_Witness ==
  /\ model.status = "RUNNING"
  /\ gameConfig.gridWidth > gameConfig.gridHeight
  /\ msg.type = "RESET_GAME"
  /\ error = "NONE"

\* C22: an eating move grows the snake at once: a MOVE_SNAKE in status
\* RUNNING, growing false, whose prospective head is the food cell and is
\* not a wall, body or obstacle cell returns a state whose snake length
\* (1 + body length) is one greater than before the move.  Stated for the
\* games whose configured snake fits the grid.
C22_EatingGrowsByOne ==
  [][(/\ Fits(gameConfig)
      /\ msg'.type = "MOVE_SNAKE"
      /\ model.status = "RUNNING"
      /\ ~model.isPaused
      /\ ~model.snake.growing
      /\ prospectiveHead(model) = model.food.position
      /\ InGrid(prospectiveHead(model), Width, Height)
      /\ ~Occurs(prospectiveHead(model), SnakeBody)
      /\ ~Occurs(prospectiveHead(model), model.obstacles))
     => /\ error' = "NONE"
        /\ SnakeLength(model') = SnakeLength(model) + 1]_vars

\* C23: the score changes only by eating: a MOVE_SNAKE that eats food raises
\* the score by exactly food.value, which is 1; every event that is neither
\* a food-eating MOVE_SNAKE nor RESET_GAME leaves the score as it was; init
\* and RESET_GAME return score 0.  So the score is the number of foods eaten
\* since the last init or reset.
C23_ScoreOnlyByEating ==
  /\ [][msg'.type # "INIT" =>
          IF msg'.type = "RESET_GAME"
            THEN error' = "NONE" => model'.score = 0
          ELSE IF Eats(model, msg') /\ error' = "NONE"
            THEN /\ model'.score = model.score + model.food.value
                 /\ model.food.value = 1
          ELSE model'.score = model.score]_vars
  /\ []((msg.type = "INIT" /\ error = "NONE") => model.score = 0)

\* A second food has just been eaten.
C23_Witness ==
  /\ msg.type = "MOVE_SNAKE"
  /\ error = "NONE"
  /\ model.snake.growing
  /\ model.score = 2

\* C24: head leads, body follows: after every MOVE_SNAKE that moves the
\* snake (status RUNNING, not lethal) body[0] is the previous head and
\* body[i+1] the previous body[i] for every retained index; the previous
\* last segment is dropped exactly when the move ate no food and growing was
\* false, and then the length is unchanged.
C24_HeadLeadsBodyFollows ==
  [][(Executed(model, msg') /\ error' = "NONE") =>
       LET old == model.snake
           new == model'.snake
           dropsTail == ~Eats(model, msg') /\ ~old.growing
       IN /\ Len(new.body) >= 1
          /\ new.body[1] = old.head
          /\ \A i \in 1..(Len(new.body) - 1) : new.body[i + 1] = old.body[i]
          /\ Len(new.body) =
               IF dropsTail THEN Len(old.body) ELSE Len(old.body) + 1
          /\ dropsTail => SnakeLength(model') = SnakeLength(model)]_vars

\* The move after a meal has just been made without eating: the growing
\* flag kept the tail, the snake is two longer than before the meal.
C24_Witness ==
  /\ msg.type = "MOVE_SNAKE"
  /\ error = "NONE"
  /\ model.status = "RUNNING"
  /\ ~model.snake.growing
  /\ meal.movesAfter = 1
  /\ SnakeLength(model) = meal.lengthBefore + 2

\* What C25 says of the state m that init returns for the configuration c.
InitResult(m, c) ==
  LET headX == c.gridWidth \div 4
      headY == c.gridHeight \div 2
  IN /\ m.status = "RUNNING"
     /\ ~m.isPaused
     /\ m.score = 0
     /\ ~m.snake.growing
     /\ m.snake.direction = "LEFT"
     /\ m.snake.head = Position(headX, headY)
     /\ m.snake.body =
          [i \in 1..(c.initialSnakeLength - 1) |-> Position(headX + i, headY)]
     /\ m.obstacles = <<>>
     /\ m.food.value = 1
     /\ InGrid(m.food.position, c.gridWidth, c.gridHeight)
     /\ ~Occurs(m.food.position, <<m.snake.head>> \o m.snake.body)
     /\ FoodCells(m) = {m.food.position}

\* C25 as stated: for every configuration whose snake fits, init returns
\* status RUNNING, isPaused false, score 0, growing false, direction LEFT,
\* the head at (floor(width/4), floor(height/2)), the body to its right, no
\* obstacles and one food of value 1 on a cell that is neither head nor body.
C25_InitResultWheneverFits ==
  [][(/\ msg'.type = "INIT"
      /\ gameConfig.gridHeight > 0
      /\ Fits(gameConfig))
     => /\ error' = "NONE"
        /\ InitResult(model', gameConfig)]_vars

\* C25 (amended): for a configuration whose snake fits and leaves at least
\* one cell of the grid free, init returns status RUNNING, isPaused false,
\* score 0, growing false, direction LEFT, the head at (floor(width/4),
\* floor(height/2)), the body [(headX+1, headY), ..., (headX+length-1,
\* headY)], no obstacles and one food of value 1 on a cell that is neither
\* head nor body; for 10x10 and length 3 the head is (2,5) and the body
\* [(3,5),(4,5)].
C25_InitResult ==
  /\ [][(/\ msg'.type = "INIT"
         /\ gameConfig.gridHeight > 0
         /\ Fits(gameConfig)
         /\ gameConfig.gridWidth * gameConfig.gridHeight
              > gameConfig.initialSnakeLength)
        => /\ error' = "NONE"
           /\ InitResult(model', gameConfig)]_vars
  /\ [](msg.type = "INIT" =>
          LET tenByTen == [gridWidth |-> 10, gridHeight |-> 10,
                           initialSnakeLength |-> 3, hasWalls |-> TRUE,
                           speed |-> 5, allowWrapping |-> FALSE]
          IN /\ init(tenByTen) # {}
             /\ \A m \in init(tenByTen) :
                  /\ InitResult(m, tenByTen)
                  /\ m.snake.head = Position(2, 5)
                  /\ m.snake.body = <<Position(3, 5), Position(4, 5)>>)

\* init has just returned the state of a three-segment snake on a grid of
\* two rows.
C25_Witness ==
  /\ msg.type = "INIT"
  /\ error = "NONE"
  /\ Fits(gameConfig)
  /\ gameConfig.initialSnakeLength = 3
  /\ gameConfig.gridHeight = 2
  /\ model.status = "RUNNING"

\* The cell one step from the head in snake.direction, taken modulo the
\* grid size when wrapping is allowed.
NextCell ==
  LET dx == CASE model.snake.direction = "LEFT" -> -1
              [] model.snake.direction = "RIGHT" -> 1
              [] OTHER -> 0
      dy == CASE model.snake.direction = "UP" -> -1
              [] model.snake.direction = "DOWN" -> 1
              [] OTHER -> 0
  IN IF model.allowWrapping
       THEN Position((SnakeHead.x + dx) % Width, (SnakeHead.y + dy) % Height)
       ELSE Position(SnakeHead.x + dx, SnakeHead.y + dy)

\* C26: the snake is always in motion while the game runs: in status
\* RUNNING with isPaused false, update(state, MOVE_SNAKE) never returns the
\* state unchanged: either the head becomes the cell one step from the old
\* head in snake.direction (wrapped in wrap mode) or the status becomes
\* GAME_OVER.  Stated for the games whose configured snake fits the grid.
C26_AlwaysInMotion ==
  [][(/\ Fits(gameConfig)
      /\ msg'.type = "MOVE_SNAKE"
      /\ model.status = "RUNNING"
      /\ ~model.isPaused)
     => /\ error' = "NONE"
        /\ model' # model
        /\ \/ model'.snake.head = NextCell
           \/ model'.status = "GAME_OVER"]_vars

\* C27: the snake never faces its own neck: in every reachable state that is
\* not GAME_OVER and has a body, the cell one step from the head in
\* snake.direction is not body[0]; so no CHANGE_DIRECTION events issued
\* between two MOVE_SNAKE events turn the snake back on its last move.
\* Stated for the states in which no position of the chain repeats, where
\* the neck is a cell other than the head's.
C27_NeverFacesNeck ==
  (/\ model.status \in {"RUNNING", "PAUSED"}
   /\ Len(SnakeBody) > 0
   /\ C11_SelfUniqueness)
  => NextCell # SnakeBody[1]

\* C28: the growing flag marks exactly the state after an eating move:
\* growing is false after init and after RESET_GAME, every executed
\* MOVE_SNAKE (not skipped, not lethal) sets it to whether that move ate
\* food, and no other event changes it.  So in every reachable state
\* growing is true exactly when the most recent executed MOVE_SNAKE since
\* the last init or reset ate food.
C28_GrowingMarksMeal ==
  /\ [][msg'.type # "INIT" =>
          IF msg'.type = "RESET_GAME"
            THEN error' = "NONE" => ~model'.snake.growing
          ELSE IF Executed(model, msg') /\ error' = "NONE"
            THEN model'.snake.growing = Eats(model, msg')
          ELSE model'.snake.growing = model.snake.growing]_vars
  /\ []((msg.type = "INIT" /\ error = "NONE") => ~model.snake.growing)

\* Food was eaten earlier in this game and the move just executed ate
\* nothing: the flag has been cleared again.
C28_Witness ==
  /\ msg.type = "MOVE_SNAKE"
  /\ error = "NONE"
  /\ model.status = "RUNNING"
  /\ model.score > 0
  /\ ~model.snake.growing

FreeAfterEating ==
  {p \in [x : 0..(Width - 1), y : 0..(Height - 1)] :
     /\ p # NextCell
     /\ p # SnakeHead
     /\ ~Occurs(p, SnakeBody)
     /\ ~Occurs(p, model.obstacles)}

\* C30: new food comes from the post-move occupancy: after a food-eating
\* MOVE_SNAKE that leaves at least one cell empty, the new food position is
\* a cell empty in the post-move layout (not the new head, not a segment of
\* the new body, the retained tail included, not an obstacle), and every
\* such cell is a possible outcome of the move.
C30_FoodFromPostMoveOccupancy ==
  /\ [][(/\ Eats(model, msg')
         /\ error' = "NONE"
         /\ FreeAfterEating # {})
        => /\ model'.food.position \in FreeAfterEating
           /\ model'.food.position # model'.snake.head
           /\ ~Occurs(model'.food.position, model'.snake.body)
           /\ ~Occurs(model'.food.position, model'.obstacles)
           /\ FoodCells(model') = {model'.food.position}]_vars
  /\ [](LET move == [type |-> "MOVE_SNAKE", payload |-> NoPayload]
        IN (/\ Eats(model, move)
            /\ FreeAfterEating # {}
            /\ \A r \in update(model, move) : r.error = "NONE")
           => {r.model.food.position : r \in update(model, move)}
                = FreeAfterEating)

\* Food has just been eaten and the new food had more than one cell to go
\* to: a cell is still empty.
C30_Witness ==
  /\ msg.type = "MOVE_SNAKE"
  /\ error = "NONE"
  /\ model.snake.growing
  /\ model.food.position # SnakeHead
  /\ \E p \in [x : 0..(Width - 1), y : 0..(Height - 1)] :
       model.grid.cells[p.y][p.x] = "EMPTY"

\* C31: the speed keys do what the help says: applied by update in status
\* RUNNING, the CHANGE_SPEED event keydown$ emits for key 'u' raises the
\* speed by speedStep, clamped at maxSpeed, and the event it emits for key
\* 'd' lowers the speed by speedStep, clamped at minSpeed.
C31_SpeedKeys ==
  [][(/\ msg'.type = "CHANGE_SPEED"
      /\ model.status = "RUNNING")
     => /\ msg' = keydown("u") =>
             model'.speed = Min(model.speed + model.speedStep, model.maxSpeed)
        /\ msg' = keydown("d") =>
             model'.speed = Max(model.speed - model.speedStep, model.minSpeed)]_vars

\* C32: in the tail-excusing variant a prospective head on the current tail
\* cell is let through only on a move that drops the tail (growing false, no
\* food eaten), and after every MOVE_SNAKE the head is on no body segment.
C32_TailExcusedOnlyWhenVacated ==
  /\ [][(/\ msg'.type = "MOVE_SNAKE"
         /\ model.status = "RUNNING"
         /\ ~model.isPaused
         /\ model.snake.body # <<>>
         /\ prospectiveHead(model) = model.snake.body[Len(model.snake.body)]
         /\ model.snake.growing)
        => model'.status = "GAME_OVER"]_vars
  /\ [][msg'.type = "MOVE_SNAKE"
        => ~Occurs(model'.snake.head, model'.snake.body)]_vars

\* The list without its i-th record.
RemoveAt(list, i) == SubSeq(list, 1, i - 1) \o SubSeq(list, i + 1, Len(list))

\* C33: in the high-score variant a step enters GAME_OVER only by a
\* MOVE_SNAKE, and exactly such a step adds one record to the stored list,
\* carrying the score and the length (body length + 1) of the state before
\* the collision; every other step, a MOVE_SNAKE received in GAME_OVER
\* included, leaves the stored list as it was.
C33_OneRecordPerDeath ==
  [][IF model.status # "GAME_OVER" /\ model'.status = "GAME_OVER"
       THEN /\ msg'.type = "MOVE_SNAKE"
            /\ Len(localStorage') = Len(localStorage) + 1
            /\ \E i \in 1..Len(localStorage') :
                 /\ localStorage'[i].score = model.score
                 /\ localStorage'[i].length = Len(model.snake.body) + 1
                 /\ RemoveAt(localStorage', i) = localStorage
       ELSE localStorage' = localStorage]_vars

\* Witness for C33: a second death has been recorded, with a lower score than
\* the first.
C33_Witness ==
  /\ model.status = "GAME_OVER"
  /\ msg.type = "MOVE_SNAKE"
  /\ Len(localStorage) = 2
  /\ localStorage[1].score > localStorage[2].score

\* The number of scores in a list that are at least v.
AtLeast(scores, v) == Cardinality({i \in 1..Len(scores) : scores[i] >= v})

\* The scores of the stored records, in their order.
StoredScores == [i \in 1..Len(localStorage) |-> localStorage[i].score]

\* C34: after any sequence of saveHighScore calls on an empty stored list the
\* list is sorted by descending score, has at most 5 entries, and holds the 5
\* highest scores recorded so far (all of them when fewer were recorded).
C34_LeaderboardTopFive ==
  /\ \A i \in 1..(Len(localStorage) - 1) :
       localStorage[i].score >= localStorage[i + 1].score
  /\ Len(localStorage) <= TopScores
  /\ \A v \in Scores :
       AtLeast(StoredScores, v) = Min(TopScores, AtLeast(recorded, v))

\* Witness for C34: more than 5 scores were recorded, the last one higher
\* than one that was stored, which it has pushed out.
C34_Witness ==
  /\ Len(recorded) > TopScores
  /\ msg.type = "saveHighScore"
  /\ localStorage[TopScores].score > 0
  /\ \E i \in 1..(Len(recorded) - 1) : recorded[i] = 0
  /\ \A i \in 1..(Len(recorded) - 1) : recorded[i] < msg.payload

\* C35: in every state reached from init, isPaused is true exactly when the
\* status is PAUSED; so it is false in every GAME_OVER state and after every
\* RESET_GAME.
C35_PauseFlagAgreesWithStatus ==
  model.status \in GameStatus =>
    /\ model.isPaused <=> model.status = "PAUSED"
    /\ model.status = "GAME_OVER" => ~model.isPaused
    /\ (msg.type = "RESET_GAME" /\ error = "NONE") => ~model.isPaused

\* Witness for C35: a game in which food has been eaten has just been paused.
C35_Witness ==
  /\ model.status = "PAUSED"
  /\ model.isPaused
  /\ msg.type = "TOGGLE_PAUSE"
  /\ model.score > 0

\* The model with the hasWalls flag set to walls.
WithWalls(m, walls) == [m EXCEPT !.hasWalls = walls]

\* C36: from an init whose snake fits, the head and every body segment stay
\* within [0,width) x [0,height) whatever hasWalls and allowWrapping are; and
\* without wrapping update does to a state with walls what it does to the
\* same state without, so runs differing only in hasWalls go through the
\* same states.
C36_SnakeStaysOnGrid ==
  /\ [](Fits(gameConfig) /\ model.status \in GameStatus
        => /\ InGrid(model.snake.head, Width, Height)
           /\ \A i \in 1..Len(model.snake.body) :
                InGrid(model.snake.body[i], Width, Height))
  /\ [][(/\ Fits(gameConfig)
         /\ msg'.type # "INIT"
         /\ ~model.allowWrapping)
        => \A walls \in BOOLEAN :
             {[r EXCEPT !.model = WithWalls(r.model, walls)] :
                r \in update(model, msg')}
               = update(WithWalls(model, walls), msg')]_vars

\* C37: after a RESET_GAME the snake length (1 + body length) is the
\* initialSnakeLength of the configuration the game was created with, for
\* every length that fits the grid, and the reset state is one init could
\* have returned for that configuration.
C37_ResetRestoresConfiguredLength ==
  [][(/\ Fits(gameConfig)
      /\ model.status \in GameStatus
      /\ msg'.type = "RESET_GAME"
      /\ error' = "NONE")
     => /\ SnakeLength(model') = gameConfig.initialSnakeLength
        /\ model' \in init(gameConfig)]_vars

\* C38: a CHANGE_DIRECTION d received while RUNNING or PAUSED, d not opposite
\* to the current direction, returns the model with snake.direction set to d
\* and every other field (head, body, growing, food, score, status, isPaused,
\* speed, grid cells) as it was.
C38_ChangeDirectionTouchesOnlyDirection ==
  [][(/\ msg'.type = "CHANGE_DIRECTION"
      /\ model.status \in {"RUNNING", "PAUSED"}
      /\ msg'.payload # Opposite[model.snake.direction])
     => /\ error' = "NONE"
        /\ model' = [model EXCEPT !.snake.direction = msg'.payload]]_vars

\* Witness for C38: a paused snake that has eaten has just been turned away
\* from the direction it started in.
C38_Witness ==
  /\ model.status = "PAUSED"
  /\ msg.type = "CHANGE_DIRECTION"
  /\ model.snake.direction = msg.payload
  /\ model.snake.direction = "UP"
  /\ model.score > 0

\* The models n MOVE_SNAKE events in a row can lead to from m; a call of
\* update that throws leaves the driver with the model it had.
RECURSIVE AfterMoves(_, _)
AfterMoves(m, n) ==
  IF n = 0 THEN {m}
  ELSE UNION {AfterMoves(r.model, n - 1) :
                r \in update(m, [type |-> "MOVE_SNAKE", payload |-> NoPayload])}

\* C39: without wrapping, MOVE_SNAKE events alone take every reachable
\* RUNNING state to GAME_OVER within max(width, height) moves.
C39_StraightRunsEnd ==
  (/\ Fits(gameConfig)
   /\ model.status = "RUNNING"
   /\ ~model.allowWrapping)
  => \A m \in AfterMoves(model, Max(Width, Height)) : m.status = "GAME_OVER"

====
